---- MODULE Spec2Model ----
(***************************************************************************)
(* State-machine model of custom_components/stream_recorder_to_s3/switch.py *)
(* (SwitchRecordCameraEntity): the run-state flag _attr_is_on, the start    *)
(* and stop commands issued on the event loop, and the executor jobs        *)
(* running upload_to_s3_sync, each with its own locals, against an S3       *)
(* multipart store and the ffmpeg capture processes.                        *)
(*                                                                          *)
(* Byte counts are in units of 512 KiB, so that a read shorter than the     *)
(* read unit (the last read before end of stream) is representable.         *)
(***************************************************************************)
EXTENDS Integers, Sequences, FiniteSets, TLC

\* ---- bounds of the model ------------------------------------------------
MaxTasks == 2       \* start commands that are accepted (executor jobs)
MaxTxns == 2        \* multipart uploads opened in one behaviour
MaxReads == 7       \* full reads one capture process delivers (-t cap)
MaxT == 3           \* thresholds tried by the accumulator specification
MaxR == 2           \* read units tried by the accumulator specification
MaxN == 7           \* input lengths tried by the accumulator specification
MaxClock == 2       \* ticks the wall clock advances in one behaviour

\* ---- program constants (in 512 KiB units) -------------------------------
ReadUnit == 2       \* process.stdout.read(1024 * 1024)
Threshold == 10     \* buffer.tell() > 5 * 1024 * 1024
TicksPerSecond == 2 \* datetime.now() is finer than the %S of the object key

Tasks == 1..MaxTasks

VARIABLES
    is_on,          \* self._attr_is_on
    pc,             \* position of each executor job in upload_to_s3_sync
    call,           \* position of each start_stream_to_s3 coroutine
    exc,            \* exception in flight in each job
    upload_id,      \* local upload_id (index into txns, 0 = unbound)
    process,        \* local process (index into procs, 0 = unbound)
    parts,          \* local parts list
    part_number,    \* local part_number
    buffer,         \* buffer.tell() of the local BytesIO
    reads,          \* full reads delivered by the current capture process
    txns,           \* the store: one record per multipart upload
    procs,          \* the capture processes ever launched
    lastCmd,        \* the last command issued and whether it took effect
    acc,            \* the accumulation loop run on its own (SpecAcc)
    now             \* datetime.now(), in ticks of 1 / TicksPerSecond second

vars == <<is_on, pc, call, exc, upload_id, process, parts, part_number,
          buffer, reads, txns, procs, lastCmd, acc, now>>

taskVars == <<pc, exc, upload_id, process, parts, part_number, buffer, reads>>

\* ---- pure helpers -------------------------------------------------------

\* part_response["ETag"]: the store's opaque tag for one uploaded part,
\* distinct for distinct (upload id, part number) pairs
ETagOf(id, pn) == <<"etag", id, pn>>

\* the threshold test written with >= instead of >
ShouldFlush_AtThreshold(buf, T) == buf >= T

\* line 104: if buffer.tell() > 5 * 1024 * 1024
ShouldFlush(buf, T) == buf > T

\* a loop exit that goes to the finalize without the final flush
AfterLoop_NoFlush(buf) == "complete"

\* a loop exit that discards the segment instead of finalizing it
AfterLoop_Abort(buf) == "abort"

\* line 123: if buffer.tell() > 0  (final flush), else straight to complete
AfterLoop(buf) == IF buf > 0 THEN "upload_last" ELSE "complete"

\* exceptions start_stream_to_s3 catches (lines 167-176); BotoCoreError is
\* folded into ClientError
Caught == {"ClientError", "OSError"}

\* lines 74-77: now.strftime("%Y/%m/%d/%Y%m%d%H%M%S_") + stream_name + ".mp4".
\* The zero-padded fields order the keys of one stream as the whole seconds
\* they name; whatever now holds below the second is dropped.
ObjectKey(n) == n \div TicksPerSecond

NewTxn(t) == [owner |-> t, key |-> ObjectKey(now), state |-> "Open",
              log |-> <<>>, failed |-> FALSE, aborts |-> 0, late |-> FALSE]

AccIdle == [pc |-> "off", T |-> 0, R |-> 0, N |-> 0, left |-> 0, buf |-> 0,
            chunks |-> <<>>]

Init ==
    /\ is_on = FALSE
    /\ pc = [t \in Tasks |-> "idle"]
    /\ call = [t \in Tasks |-> "none"]
    /\ exc = [t \in Tasks |-> "none"]
    /\ upload_id = [t \in Tasks |-> 0]
    /\ process = [t \in Tasks |-> 0]
    /\ parts = [t \in Tasks |-> <<>>]
    /\ part_number = [t \in Tasks |-> 0]
    /\ buffer = [t \in Tasks |-> 0]
    /\ reads = [t \in Tasks |-> 0]
    /\ txns = <<>>
    /\ procs = <<>>
    /\ lastCmd = "none"
    /\ acc = AccIdle
    /\ now = 0

\* ---- commands (event loop) ----------------------------------------------

\* TurnOn with the job launched fire-and-forget: the call returns at once
TurnOn_FireAndForget ==
    /\ UNCHANGED <<exc, upload_id, process, parts, part_number, buffer, reads,
                   txns, procs, acc, now>>
    /\ IF ~is_on
       THEN \E t \in Tasks :
              /\ pc[t] = "idle"
              /\ \A u \in Tasks : u < t => pc[u] # "idle"
              /\ is_on' = TRUE
              /\ pc' = [pc EXCEPT ![t] = "while_on"]
              /\ call' = [call EXCEPT ![t] = "returned"]
              /\ lastCmd' = "start"
       ELSE /\ lastCmd' = "start_noop"
            /\ UNCHANGED <<is_on, pc, call>>

\* TurnOn without the two "if not self._attr_is_on" tests
TurnOn_NoGuard ==
    /\ UNCHANGED <<exc, upload_id, process, parts, part_number, buffer, reads,
                   txns, procs, acc, now>>
    /\ \E t \in Tasks :
         /\ pc[t] = "idle"
         /\ \A u \in Tasks : u < t => pc[u] # "idle"
         /\ is_on' = TRUE
         /\ pc' = [pc EXCEPT ![t] = "while_on"]
         /\ call' = [call EXCEPT ![t] = "awaiting"]
         /\ lastCmd' = IF is_on THEN "start_noop" ELSE "start"

\* async_turn_on -> start_stream_to_s3 up to the await (lines 55-59, 160-166)
TurnOn ==
    /\ UNCHANGED <<exc, upload_id, process, parts, part_number, buffer, reads,
                   txns, procs, acc, now>>
    /\ IF ~is_on
       THEN \E t \in Tasks :
              /\ pc[t] = "idle"
              /\ \A u \in Tasks : u < t => pc[u] # "idle"
              /\ is_on' = TRUE
              /\ pc' = [pc EXCEPT ![t] = "while_on"]
              /\ call' = [call EXCEPT ![t] = "awaiting"]
              /\ lastCmd' = "start"
       ELSE /\ lastCmd' = "start_noop"
            /\ UNCHANGED <<is_on, pc, call>>

\* stop_stream_to_s3 (lines 180-187)
StopStream ==
    is_on' = FALSE

\* async_turn_off (lines 61-63)
TurnOff ==
    /\ StopStream
    /\ lastCmd' = IF is_on THEN "stop" ELSE "stop_noop"
    /\ UNCHANGED <<taskVars, call, txns, procs, acc, now>>

\* StartFinish without the finally clause of line 178
StartFinish_NoFinally(t) ==
    /\ call[t] = "awaiting"
    /\ pc[t] \in {"exit", "raised"}
    /\ call' = [call EXCEPT ![t] =
                  IF pc[t] = "raised" /\ exc[t] \notin Caught
                  THEN "propagated" ELSE "returned"]
    /\ UNCHANGED <<is_on, taskVars, txns, procs, lastCmd, acc, now>>

\* start_stream_to_s3 after the await: except clauses and finally
\* (lines 167-178)
StartFinish(t) ==
    /\ call[t] = "awaiting"
    /\ pc[t] \in {"exit", "raised"}
    /\ StopStream
    /\ call' = [call EXCEPT ![t] =
                  IF pc[t] = "raised" /\ exc[t] \notin Caught
                  THEN "propagated" ELSE "returned"]
    /\ UNCHANGED <<taskVars, txns, procs, lastCmd, acc, now>>

\* ---- the executor job: upload_to_s3_sync --------------------------------

\* leaving "with subprocess.Popen(...) as process" (line 94), normally or by
\* an exception raised inside it: Popen.__exit__ closes the pipes and waits
\* for the child.  Nothing happens when the block was never entered (Popen
\* itself raised): process is then unbound or names an earlier, reaped child.
PopenExit(t) ==
    IF process[t] = 0 THEN procs
    ELSE [procs EXCEPT ![process[t]] = "reaped"]

\* the job returns or raises: its locals are gone
Leave(t, how, e) ==
    /\ pc' = [pc EXCEPT ![t] = how]
    /\ exc' = [exc EXCEPT ![t] = e]
    /\ upload_id' = [upload_id EXCEPT ![t] = 0]
    /\ process' = [process EXCEPT ![t] = 0]
    /\ parts' = [parts EXCEPT ![t] = <<>>]
    /\ part_number' = [part_number EXCEPT ![t] = 0]

\* line 73: while self._attr_is_on
CheckOn(t) ==
    /\ pc[t] = "while_on"
    /\ IF is_on
       THEN /\ Len(txns) + Cardinality({u \in Tasks : pc[u] = "create"}) < MaxTxns
            /\ pc' = [pc EXCEPT ![t] = "create"]
            /\ UNCHANGED <<exc, upload_id, process, parts, part_number>>
       ELSE Leave(t, "exit", "none")
    /\ UNCHANGED <<is_on, call, buffer, reads, txns, procs, lastCmd, acc, now>>

\* lines 74-86: create_multipart_upload, outside the try
Create(t) ==
    /\ pc[t] = "create"
    /\ \/ /\ txns' = Append(txns, NewTxn(t))
          /\ upload_id' = [upload_id EXCEPT ![t] = Len(txns) + 1]
          /\ parts' = [parts EXCEPT ![t] = <<>>]
          /\ part_number' = [part_number EXCEPT ![t] = 1]
          /\ pc' = [pc EXCEPT ![t] = "popen"]
          /\ UNCHANGED <<exc, process>>
       \/ /\ Leave(t, "raised", "ClientError")
          /\ UNCHANGED txns
    /\ UNCHANGED <<is_on, call, buffer, reads, procs, lastCmd, acc, now>>

\* lines 89-97: subprocess.Popen(...) as process, io.BytesIO() as buffer
Popen(t) ==
    /\ pc[t] = "popen"
    /\ \/ /\ procs' = Append(procs, "running")
          /\ process' = [process EXCEPT ![t] = Len(procs) + 1]
          /\ buffer' = [buffer EXCEPT ![t] = 0]
          /\ reads' = [reads EXCEPT ![t] = 0]
          /\ pc' = [pc EXCEPT ![t] = "read_on"]
          /\ UNCHANGED exc
       \/ /\ exc' = [exc EXCEPT ![t] = "OSError"]
          /\ pc' = [pc EXCEPT ![t] = "except_os"]
          /\ UNCHANGED <<procs, process, buffer, reads>>
    /\ UNCHANGED <<is_on, call, upload_id, parts, part_number, txns, lastCmd, acc, now>>

\* line 98: while self._attr_is_on (inner loop), then line 123
ReadOn(t) ==
    /\ pc[t] = "read_on"
    /\ IF is_on
       THEN /\ pc' = [pc EXCEPT ![t] = "read"]
            /\ UNCHANGED reads
       ELSE /\ pc' = [pc EXCEPT ![t] = AfterLoop(buffer[t])]
            /\ reads' = [reads EXCEPT ![t] = 0]
    /\ UNCHANGED <<is_on, call, exc, upload_id, process, parts, part_number,
                   buffer, txns, procs, lastCmd, acc, now>>

\* lines 99-104: chunk = process.stdout.read(1 MiB); break on b"";
\* buffer.write(chunk); threshold test
Read(t) ==
    /\ pc[t] = "read"
    /\ \/ \* a full read unit
          /\ procs[process[t]] = "running"
          /\ reads[t] < MaxReads
          /\ buffer' = [buffer EXCEPT ![t] = @ + ReadUnit]
          /\ reads' = [reads EXCEPT ![t] = @ + 1]
          /\ pc' = [pc EXCEPT ![t] =
                      IF ShouldFlush(buffer[t] + ReadUnit, Threshold)
                      THEN "upload_part" ELSE "read_on"]
          /\ UNCHANGED <<procs, exc>>
       \/ \* a short read: the process closed its end after these bytes
          /\ procs[process[t]] = "running"
          /\ \E c \in 1..(ReadUnit - 1) :
               /\ buffer' = [buffer EXCEPT ![t] = @ + c]
               /\ pc' = [pc EXCEPT ![t] =
                           IF ShouldFlush(buffer[t] + c, Threshold)
                           THEN "upload_part" ELSE "read_on"]
          /\ procs' = [procs EXCEPT ![process[t]] = "exited"]
          /\ UNCHANGED <<reads, exc>>
       \/ \* b"": end of stream, break
          /\ procs' = [procs EXCEPT ![process[t]] = "exited"]
          /\ pc' = [pc EXCEPT ![t] = AfterLoop(buffer[t])]
          /\ reads' = [reads EXCEPT ![t] = 0]
          /\ UNCHANGED <<buffer, exc>>
       \/ \* the read raises OSError / ValueError
          /\ exc' = [exc EXCEPT ![t] = "OSError"]
          /\ pc' = [pc EXCEPT ![t] = "except_os"]
          /\ buffer' = [buffer EXCEPT ![t] = 0]
          /\ reads' = [reads EXCEPT ![t] = 0]
          /\ UNCHANGED procs
    /\ UNCHANGED <<is_on, call, upload_id, process, parts, part_number, txns,
                   lastCmd, acc, now>>

\* the store's side of one successful upload_part call on upload id
StorePart(id, pn) ==
    [txns EXCEPT ![id].log = Append(@, [PartNumber |-> pn,
                                        ETag |-> ETagOf(id, pn)]),
                 ![id].late = txns[id].failed \/ txns[id].state # "Open"]

\* a failed complete_multipart_upload call
StoreFail(id) ==
    [txns EXCEPT ![id].failed = TRUE]

\* a failed upload_part call
StorePartFail(id) ==
    [txns EXCEPT ![id].failed = TRUE,
                 ![id].late = txns[id].failed \/ txns[id].state # "Open"]

\* complete_multipart_upload / abort_multipart_upload taking effect: the
\* upload id ceases to exist at the store and with it the list of its parts
StoreClose(id, st) ==
    [txns EXCEPT ![id].state = st, ![id].log = <<>>]

\* UploadPart without buffer.seek(0); buffer.truncate() (lines 119-120)
UploadPart_NoTruncate(t) ==
    /\ pc[t] = "upload_part"
    /\ \/ /\ txns[upload_id[t]].state = "Open"
          /\ txns' = StorePart(upload_id[t], part_number[t])
          /\ parts' = [parts EXCEPT ![t] =
                         Append(@, [PartNumber |-> part_number[t],
                                    ETag |-> ETagOf(upload_id[t], part_number[t])])]
          /\ part_number' = [part_number EXCEPT ![t] = @ + 1]
          /\ pc' = [pc EXCEPT ![t] = "read_on"]
          /\ UNCHANGED <<exc, reads, buffer>>
       \/ /\ txns' = StorePartFail(upload_id[t])
          /\ exc' = [exc EXCEPT ![t] = "ClientError"]
          /\ pc' = [pc EXCEPT ![t] = "abort"]
          /\ buffer' = [buffer EXCEPT ![t] = 0]
          /\ reads' = [reads EXCEPT ![t] = 0]
          /\ UNCHANGED <<parts, part_number>>
    /\ UNCHANGED <<is_on, call, upload_id, process, procs, lastCmd, acc, now>>

\* UploadPart without "part_number += 1" (line 121)
UploadPart_NoIncrement(t) ==
    /\ pc[t] = "upload_part"
    /\ \/ /\ txns[upload_id[t]].state = "Open"
          /\ txns' = StorePart(upload_id[t], part_number[t])
          /\ parts' = [parts EXCEPT ![t] =
                         Append(@, [PartNumber |-> part_number[t],
                                    ETag |-> ETagOf(upload_id[t], part_number[t])])]
          /\ buffer' = [buffer EXCEPT ![t] = 0]
          /\ pc' = [pc EXCEPT ![t] = "read_on"]
          /\ UNCHANGED <<exc, reads>>
       \/ /\ txns' = StorePartFail(upload_id[t])
          /\ exc' = [exc EXCEPT ![t] = "ClientError"]
          /\ pc' = [pc EXCEPT ![t] = "abort"]
          /\ buffer' = [buffer EXCEPT ![t] = 0]
          /\ reads' = [reads EXCEPT ![t] = 0]
          /\ UNCHANGED parts
    /\ UNCHANGED <<is_on, call, upload_id, process, part_number, procs,
                   lastCmd, acc, now>>

\* lines 105-121: upload_part of the full buffer, parts.append, reset,
\* part_number += 1
UploadPart(t) ==
    /\ pc[t] = "upload_part"
    /\ \/ /\ txns[upload_id[t]].state = "Open"
          /\ txns' = StorePart(upload_id[t], part_number[t])
          /\ parts' = [parts EXCEPT ![t] =
                         Append(@, [PartNumber |-> part_number[t],
                                    ETag |-> ETagOf(upload_id[t], part_number[t])])]
          /\ buffer' = [buffer EXCEPT ![t] = 0]
          /\ part_number' = [part_number EXCEPT ![t] = @ + 1]
          /\ pc' = [pc EXCEPT ![t] = "read_on"]
          /\ UNCHANGED <<exc, reads>>
       \/ /\ txns' = StorePartFail(upload_id[t])
          /\ exc' = [exc EXCEPT ![t] = "ClientError"]
          /\ pc' = [pc EXCEPT ![t] = "abort"]
          /\ buffer' = [buffer EXCEPT ![t] = 0]
          /\ reads' = [reads EXCEPT ![t] = 0]
          /\ UNCHANGED <<parts, part_number>>
    /\ UNCHANGED <<is_on, call, upload_id, process, procs, lastCmd, acc, now>>

\* lines 123-137: upload_part of the remainder, parts.append
UploadLast(t) ==
    /\ pc[t] = "upload_last"
    /\ \/ /\ txns[upload_id[t]].state = "Open"
          /\ txns' = StorePart(upload_id[t], part_number[t])
          /\ parts' = [parts EXCEPT ![t] =
                         Append(@, [PartNumber |-> part_number[t],
                                    ETag |-> ETagOf(upload_id[t], part_number[t])])]
          /\ pc' = [pc EXCEPT ![t] = "complete"]
          /\ UNCHANGED exc
       \/ /\ txns' = StorePartFail(upload_id[t])
          /\ exc' = [exc EXCEPT ![t] = "ClientError"]
          /\ pc' = [pc EXCEPT ![t] = "abort"]
          /\ UNCHANGED parts
    \* either way the with io.BytesIO() block is left and the buffer closed
    /\ buffer' = [buffer EXCEPT ![t] = 0]
    /\ reads' = [reads EXCEPT ![t] = 0]
    /\ UNCHANGED <<is_on, call, upload_id, process, part_number, procs,
                   lastCmd, acc, now>>

\* Complete followed by abort_multipart_upload whatever the outcome
Complete_ThenAbort(t) ==
    /\ pc[t] = "complete"
    /\ \/ /\ txns[upload_id[t]].state = "Open"
          /\ txns' = StoreClose(upload_id[t], "Finalized")
          /\ UNCHANGED exc
       \/ /\ txns' = StoreFail(upload_id[t])
          /\ exc' = [exc EXCEPT ![t] = "ClientError"]
    /\ pc' = [pc EXCEPT ![t] = "abort"]
    /\ UNCHANGED <<is_on, call, upload_id, process, parts, part_number, buffer,
                   reads, procs, lastCmd, acc, now>>

\* Complete treating a segment without parts as the end of the session
Complete_StopIfEmpty(t) ==
    /\ pc[t] = "complete"
    /\ is_on' = (is_on /\ parts[t] # <<>>)
    /\ \/ /\ txns[upload_id[t]].state = "Open"
          /\ txns' = StoreClose(upload_id[t], "Finalized")
          /\ pc' = [pc EXCEPT ![t] = "finally"]
          /\ UNCHANGED exc
       \/ /\ txns' = StoreFail(upload_id[t])
          /\ exc' = [exc EXCEPT ![t] = "ClientError"]
          /\ pc' = [pc EXCEPT ![t] = "abort"]
    /\ UNCHANGED <<call, upload_id, process, parts, part_number, buffer,
                   reads, procs, lastCmd, acc, now>>

\* lines 139-145: complete_multipart_upload(MultipartUpload={"Parts": parts})
Complete(t) ==
    /\ pc[t] = "complete"
    /\ \/ /\ txns[upload_id[t]].state = "Open"
          /\ txns' = StoreClose(upload_id[t], "Finalized")
          /\ pc' = [pc EXCEPT ![t] = "finally"]
          /\ UNCHANGED exc
       \/ /\ txns' = StoreFail(upload_id[t])
          /\ exc' = [exc EXCEPT ![t] = "ClientError"]
          /\ pc' = [pc EXCEPT ![t] = "abort"]
    /\ UNCHANGED <<is_on, call, upload_id, process, parts, part_number, buffer,
                   reads, procs, lastCmd, acc, now>>

\* the ClientError handler logging the error without calling abort
Abort_Skipped(t) ==
    /\ pc[t] = "abort"
    /\ procs' = PopenExit(t)
    /\ exc' = [exc EXCEPT ![t] = "none"]
    /\ pc' = [pc EXCEPT ![t] = "finally"]
    /\ UNCHANGED <<is_on, call, upload_id, process, parts, part_number, buffer,
                   reads, txns, lastCmd, acc, now>>

\* the ClientError handler also calling self.stop_stream_to_s3()
Abort_ThenStop(t) ==
    /\ pc[t] = "abort"
    /\ procs' = PopenExit(t)
    /\ StopStream
    /\ \/ /\ txns' = [StoreClose(upload_id[t], "Aborted")
                         EXCEPT ![upload_id[t]].aborts = @ + 1]
          /\ exc' = [exc EXCEPT ![t] = "none"]
       \/ /\ txns' = [txns EXCEPT ![upload_id[t]].aborts = @ + 1]
          /\ exc' = [exc EXCEPT ![t] = "ClientError"]
    /\ pc' = [pc EXCEPT ![t] = "finally"]
    /\ UNCHANGED <<call, upload_id, process, parts, part_number, buffer,
                   reads, lastCmd, acc, now>>

\* lines 147-151: except (ClientError, BotoCoreError): abort_multipart_upload
Abort(t) ==
    /\ pc[t] = "abort"
    /\ procs' = PopenExit(t)
    /\ \/ /\ txns' = [StoreClose(upload_id[t], "Aborted")
                         EXCEPT ![upload_id[t]].aborts = @ + 1]
          /\ exc' = [exc EXCEPT ![t] = "none"]
       \/ /\ txns' = [txns EXCEPT ![upload_id[t]].aborts = @ + 1]
          /\ exc' = [exc EXCEPT ![t] = "ClientError"]
    /\ pc' = [pc EXCEPT ![t] = "finally"]
    /\ UNCHANGED <<is_on, call, upload_id, process, parts, part_number, buffer,
                   reads, lastCmd, acc, now>>

\* the OSError handler logging the error without stopping the session
ExceptOS_NoStop(t) ==
    /\ pc[t] = "except_os"
    /\ procs' = PopenExit(t)
    /\ exc' = [exc EXCEPT ![t] = "none"]
    /\ pc' = [pc EXCEPT ![t] = "finally"]
    /\ UNCHANGED <<is_on, call, upload_id, process, parts, part_number, buffer,
                   reads, txns, lastCmd, acc, now>>

\* lines 152-154: except (OSError, ValueError, SubprocessError):
\* self.stop_stream_to_s3()
ExceptOS(t) ==
    /\ pc[t] = "except_os"
    /\ procs' = PopenExit(t)
    /\ StopStream
    /\ exc' = [exc EXCEPT ![t] = "none"]
    /\ pc' = [pc EXCEPT ![t] = "finally"]
    /\ UNCHANGED <<call, upload_id, process, parts, part_number, buffer, reads,
                   txns, lastCmd, acc, now>>

\* the segment left with neither Popen.__exit__ nor terminate() and wait()
Finally_NoReap(t) ==
    /\ pc[t] = "finally"
    /\ IF process[t] = 0
       THEN Leave(t, "raised", "UnboundLocalError")
       ELSE IF exc[t] = "none"
            THEN /\ pc' = [pc EXCEPT ![t] = "while_on"]
                 /\ UNCHANGED <<exc, upload_id, process, parts, part_number>>
            ELSE Leave(t, "raised", exc[t])
    /\ UNCHANGED <<is_on, call, buffer, reads, txns, procs, lastCmd, acc, now>>

\* lines 155-158: finally: process.terminate(); process.wait(), reached from
\* the with block (after Popen.__exit__) or from an except clause.  The local
\* name process is unbound when the first Popen of the job failed.
Finally(t) ==
    /\ pc[t] = "finally"
    /\ IF process[t] = 0
       THEN /\ Leave(t, "raised", "UnboundLocalError")
            /\ UNCHANGED procs
       ELSE /\ procs' = [procs EXCEPT ![process[t]] = "reaped"]
            /\ IF exc[t] = "none"
               THEN /\ pc' = [pc EXCEPT ![t] = "while_on"]
                    /\ UNCHANGED <<exc, upload_id, process, parts, part_number>>
               ELSE Leave(t, "raised", exc[t])
    /\ UNCHANGED <<is_on, call, buffer, reads, txns, lastCmd, acc, now>>

Step(t) ==
    \/ CheckOn(t) \/ Create(t) \/ Popen(t) \/ ReadOn(t) \/ Read(t)
    \/ UploadPart(t) \/ UploadLast(t) \/ Complete(t)
    \/ Abort(t) \/ ExceptOS(t) \/ Finally(t)

Next ==
    \/ TurnOn
    \/ TurnOff
    \/ \E t \in Tasks : StartFinish(t)
    \/ \E t \in Tasks : Step(t)

Spec == Init /\ [][Next]_vars

\* ---- the wall clock -----------------------------------------------------
\* Nothing in switch.py reads the clock except line 74, and the key it makes
\* steers no branch: Spec leaves the clock alone, SpecClock lets it advance
\* between any two steps of the program.
Tick ==
    /\ now < MaxClock
    /\ now' = now + 1
    /\ UNCHANGED <<is_on, taskVars, call, txns, procs, lastCmd, acc>>

NextClock == Next \/ Tick

SpecClock == Init /\ [][NextClock]_vars

\* ---- what the scheduling guarantees --------------------------------------
\* The executor thread keeps running its job and the event loop resumes a
\* coroutine whose awaited job is done.  A storage call comes back by itself,
\* with a result or with an error of the client library.  The read of line 99
\* comes back only when ffmpeg writes or closes its end of the pipe:
\* switch.py sets no timeout on it and has no other way out of the call, so
\* Read is fair only once the capture process has closed its end.
JobStep(t) ==
    \/ CheckOn(t) \/ Create(t) \/ Popen(t) \/ ReadOn(t)
    \/ UploadPart(t) \/ UploadLast(t) \/ Complete(t)
    \/ Abort(t) \/ ExceptOS(t) \/ Finally(t)

ReadAtEOF(t) ==
    pc[t] = "read" /\ procs[process[t]] = "exited" /\ Read(t)

Fairness ==
    \A t \in Tasks :
        WF_vars(JobStep(t)) /\ WF_vars(ReadAtEOF(t)) /\ WF_vars(StartFinish(t))

SpecLive == Init /\ [][Next]_vars /\ Fairness

\* ---- the accumulation loop on its own -----------------------------------
\* Lines 97-137 with every upload succeeding, for a threshold T, a read unit
\* R and a capture that delivers N bytes: acc.chunks lists the sizes of the
\* bodies handed to upload_part.

CeilDiv(n, d) == (n + d - 1) \div d

Min(a, b) == IF a < b THEN a ELSE b

AccInit ==
    /\ is_on = FALSE
    /\ pc = [t \in Tasks |-> "idle"]
    /\ call = [t \in Tasks |-> "none"]
    /\ exc = [t \in Tasks |-> "none"]
    /\ upload_id = [t \in Tasks |-> 0]
    /\ process = [t \in Tasks |-> 0]
    /\ parts = [t \in Tasks |-> <<>>]
    /\ part_number = [t \in Tasks |-> 0]
    /\ buffer = [t \in Tasks |-> 0]
    /\ reads = [t \in Tasks |-> 0]
    /\ txns = <<>>
    /\ procs = <<>>
    /\ lastCmd = "none"
    /\ now = 0
    /\ \E T \in 1..MaxT, R \in 1..MaxR, N \in 0..MaxN :
         acc = [pc |-> "loop", T |-> T, R |-> R, N |-> N, left |-> N,
                buf |-> 0, chunks |-> <<>>]

\* lines 99-121: one iteration: read up to R bytes, break on b"", write,
\* flush when the threshold test says so
AccRead ==
    /\ acc.pc = "loop"
    /\ LET chunk == Min(acc.R, acc.left)
           buf == acc.buf + chunk
       IN  IF chunk = 0
           THEN acc' = [acc EXCEPT !.pc = "final"]
           ELSE IF ShouldFlush(buf, acc.T)
                THEN acc' = [acc EXCEPT !.left = @ - chunk, !.buf = 0,
                                        !.chunks = Append(@, buf)]
                ELSE acc' = [acc EXCEPT !.left = @ - chunk, !.buf = buf]
    /\ UNCHANGED <<is_on, taskVars, call, txns, procs, lastCmd, now>>

\* lines 123-137: the final flush
AccFinal ==
    /\ acc.pc = "final"
    /\ IF AfterLoop(acc.buf) = "upload_last"
       THEN acc' = [acc EXCEPT !.pc = "done", !.buf = 0,
                               !.chunks = Append(@, acc.buf)]
       ELSE acc' = [acc EXCEPT !.pc = "done"]
    /\ UNCHANGED <<is_on, taskVars, call, txns, procs, lastCmd, now>>

AccNext == AccRead \/ AccFinal

SpecAcc == AccInit /\ [][AccNext]_vars

\* ---- shorthands for the properties --------------------------------------

TxnIds == 1..Len(txns)

InSegment == {"popen", "read_on", "read", "upload_part", "upload_last",
              "complete", "abort", "except_os", "finally"}

\* transaction i is the current transaction of a job still inside its segment
Held(i) ==
    /\ upload_id[txns[i].owner] = i
    /\ pc[txns[i].owner] \in InSegment

\* ---- C1 ------------------------------------------------------------------
\* C1: no transaction is left Open once the job that opened it has moved on
\* to the next segment or has returned or raised: every Open transaction is
\* still the current transaction of a job inside its segment.
C1_NoOpenLeftBehind ==
    \A i \in TxnIds : txns[i].state = "Open" => Held(i)

\* ---- C2 ------------------------------------------------------------------
\* C2: a transaction on which an upload_part or complete_multipart_upload
\* call failed gets exactly one abort_multipart_upload call by the time the
\* ClientError handler has run, never more than one, and no upload_part call
\* is made on it after the failure.
C2_AbortExactlyOnce ==
    \A i \in TxnIds :
        /\ txns[i].aborts <= 1
        /\ ~txns[i].late
        /\ (txns[i].failed /\ ~(Held(i) /\ pc[txns[i].owner] = "abort"))
              => txns[i].aborts = 1

\* a part upload failed after an earlier part had been stored, the abort was
\* called once and took effect
C2_Witness ==
    \E i \in TxnIds :
        /\ txns[i].failed /\ txns[i].aborts = 1 /\ txns[i].state = "Aborted"
        /\ Held(i) /\ pc[txns[i].owner] = "finally"
        /\ Len(parts[txns[i].owner]) = 1

\* ---- C3 ------------------------------------------------------------------
\* C3 as stated: after a storage failure in a segment the job opens no new
\* transaction unless a new start is issued; a job belongs to one start, so
\* no job owns a transaction opened after one of its own that failed.
C3_NoRetryAfterStorageFailure ==
    \A i, j \in TxnIds :
        (i < j /\ txns[i].owner = txns[j].owner) => ~txns[i].failed

\* C3 amended: a successful abort after a storage failure leaves the run
\* state as it is and sends the job back to the test of line 73, and a job
\* that finds the run state on there goes on to open a new transaction.
C3_RetriesWhileOn ==
    [][\A t \in Tasks :
         /\ (pc[t] = "abort" /\ pc'[t] = "finally" /\ exc'[t] = "none")
               => is_on' = is_on /\ txns'[upload_id[t]].state = "Aborted"
         /\ (pc[t] = "finally" /\ process[t] # 0 /\ pc'[t] # "finally"
               /\ txns[upload_id[t]].state = "Aborted")
               => pc'[t] = "while_on" /\ is_on' = is_on
         /\ (pc[t] = "while_on" /\ is_on /\ pc'[t] # "while_on")
               => pc'[t] = "create"]_vars

\* one start only, a transaction of its job failed and was aborted, and the
\* same job has opened the next transaction with the run state still on
C3_Witness ==
    /\ is_on /\ lastCmd = "start" /\ \A t \in Tasks : t > 1 => pc[t] = "idle"
    /\ \E i, j \in TxnIds :
         /\ i < j /\ txns[i].owner = 1 /\ txns[j].owner = 1
         /\ txns[i].failed /\ txns[i].state = "Aborted"
         /\ txns[j].state = "Open"

\* ---- C4 ------------------------------------------------------------------
\* a job is in the middle of a segment: capture running, transaction Open
MidSegment(t) ==
    /\ pc[t] \in {"read_on", "read", "upload_part"}
    /\ procs[process[t]] = "running"
    /\ txns[upload_id[t]].state = "Open"

\* C4 as stated: the run state goes off last, so once a stop has put the
\* session in Idle no job is still in the middle of a segment.
C4_IdleOnlyAfterFinalize ==
    (lastCmd = "stop" /\ ~is_on) => \A t \in Tasks : ~MidSegment(t)

\* C4 amended: the stop turns the run state off first; a job that then finds
\* it off at line 98 goes on to the final flush and
\* complete_multipart_upload on its Open transaction with the capture
\* process not yet reaped; the capture is never reaped while the finalize is
\* still to be called; and no transaction is aborted without a failed
\* storage call.
C4_StopThenFinalizeThenTerminate ==
    /\ [][\A t \in Tasks :
            (pc[t] = "read_on" /\ ~is_on /\ pc'[t] # "read_on")
               => /\ pc'[t] \in {"upload_last", "complete"}
                  /\ txns'[upload_id[t]].state = "Open"]_vars
    /\ [](\A t \in Tasks :
            pc[t] \in {"upload_last", "complete"}
               => /\ txns[upload_id[t]].state = "Open"
                  /\ procs[process[t]] # "reaped")
    /\ [](\A i \in TxnIds : txns[i].state = "Aborted" => txns[i].failed)

\* a stop was the last command, the only job left its read loop with the
\* capture still running, has finalized its transaction and has not yet
\* terminated the capture
C4_Witness ==
    /\ lastCmd = "stop" /\ ~is_on /\ \A t \in Tasks : t > 1 => pc[t] = "idle"
    /\ pc[1] = "finally"
    /\ txns[upload_id[1]].state = "Finalized"
    /\ procs[process[1]] = "running"

\* ---- C5 ------------------------------------------------------------------
\* C5: at most one capture process is running and at most one Open
\* transaction is being written by a job at any time.
C5_OneCaptureOneTransaction ==
    /\ Cardinality({p \in 1..Len(procs) : procs[p] = "running"}) <= 1
    /\ Cardinality({i \in TxnIds : txns[i].state = "Open" /\ Held(i)}) <= 1

C7_StartWhileActiveIsNoop ==
    [][(TurnOn /\ is_on)
         => /\ is_on'
            /\ UNCHANGED <<pc, call, txns, procs, exc, upload_id, process,
                           parts, part_number, buffer, reads>>]_vars

\* a start was issued while the only job was reading from its capture
C7_Witness ==
    /\ lastCmd = "start_noop" /\ is_on
    /\ pc[1] = "read" /\ \A t \in Tasks : t > 1 => pc[t] = "idle"
    /\ Len(txns) = 1 /\ Len(procs) = 1

\* ---- C8 ------------------------------------------------------------------
\* C8: when complete_multipart_upload is about to be called, the parts list
\* has part numbers 1, 2, ..., n in this order and is, entry by entry, the
\* list of (part number, ETag) pairs of the upload_part calls the store
\* served for this transaction, with no ETag twice.
C8_PartsMatchUploads ==
    \A t \in Tasks :
        pc[t] = "complete" =>
            LET p == parts[t]
                lg == txns[upload_id[t]].log
            IN  /\ Len(p) = Len(lg)
                /\ \A k \in 1..Len(p) :
                     /\ p[k].PartNumber = k
                     /\ p[k].PartNumber = lg[k].PartNumber
                     /\ p[k].ETag = lg[k].ETag
                /\ \A k, m \in 1..Len(p) : k # m => p[k].ETag # p[m].ETag

\* a segment with one part flushed at the threshold and a final part
C8_Witness ==
    \E t \in Tasks : pc[t] = "complete" /\ Len(parts[t]) = 2

\* ---- C9 ------------------------------------------------------------------
\* C9 as stated: N bytes give ceil(N / T) chunks.
C9_CeilNOverT ==
    acc.pc = "done" => Len(acc.chunks) = CeilDiv(acc.N, acc.T)

\* size of a chunk flushed at the threshold: the smallest multiple of the
\* read unit that is greater than the threshold
FlushSize(T, R) == ((T \div R) + 1) * R

\* C9 amended: N bytes give ceil(N / E) chunks, E the smallest multiple of
\* the read unit R strictly greater than T.
C9_CeilNOverFlushSize ==
    acc.pc = "done" =>
        Len(acc.chunks) = CeilDiv(acc.N, FlushSize(acc.T, acc.R))

\* a run that flushed at the threshold and ended with a smaller final chunk
C9_Witness ==
    /\ acc.pc = "done" /\ Len(acc.chunks) >= 2
    /\ acc.chunks[Len(acc.chunks)] < acc.chunks[1]
    /\ acc.chunks[1] > acc.T

\* ---- C10 -----------------------------------------------------------------
\* C10 as stated: the run state is on only if a capture process of a pending
\* start has been launched.
C10_OnOnlyAfterCaptureLaunch ==
    is_on => \E t \in Tasks : call[t] = "awaiting" /\ process[t] # 0

\* C10 amended: the run state is on only while a start call is pending (its
\* job launched and not yet cleaned up), whether or not a capture process
\* has been launched.
C10_OnOnlyWhileStartPending ==
    is_on => \E t \in Tasks : call[t] = "awaiting"

\* the run state is on and no capture process has ever been launched
C10_Witness ==
    /\ is_on /\ Len(procs) = 0 /\ Len(txns) = 1
    /\ \E t \in Tasks : call[t] = "awaiting" /\ pc[t] = "popen"

\* ---- C11 -----------------------------------------------------------------
\* C11: any two transactions opened one after the other by the same job have
\* different object keys, the key of the later one strictly greater.
C11_KeysStrictlyIncrease ==
    \A i, j \in TxnIds :
        (i < j /\ txns[i].owner = txns[j].owner) => txns[i].key < txns[j].key

\* ---- C12 -----------------------------------------------------------------
\* only one start was issued and took effect, and no stop
OneStartOnly ==
    lastCmd = "start" /\ \A t \in Tasks : t > 1 => pc[t] = "idle"

\* the current segment of job t was finalized with no part at all
EmptyFinalized(t) ==
    /\ upload_id[t] # 0
    /\ txns[upload_id[t]].state = "Finalized"
    /\ parts[t] = <<>>

\* C12 as stated: a capture that ends with no byte produced ends the
\* session; with no command but the start, the run state is off by the time
\* the job is back at the test of line 73 after the empty segment.
C12_EmptyCaptureEndsSession ==
    \A t \in Tasks :
        (pc[t] = "while_on" /\ EmptyFinalized(t) /\ OneStartOnly) => ~is_on

\* C12 amended: a first read that returns b"" uploads no part and goes to
\* complete_multipart_upload with an empty parts list; that call finalizes
\* the transaction or fails and hands over to the abort handler; the capture
\* process is reaped; the only exception that can leave the job on this path
\* is one start_stream_to_s3 catches; and none of these steps touches the run
\* state, so the job back at line 73 finds it as it was and, if on, goes on
\* to open the next segment.
C12_EmptyCaptureLoopsOn ==
    /\ [][\A t \in Tasks :
            /\ (pc[t] = "read" /\ buffer[t] = 0 /\ parts[t] = <<>>
                   /\ pc'[t] \notin {"read", "read_on", "upload_part", "except_os"})
                  => /\ pc'[t] = "complete" /\ parts'[t] = <<>>
                     /\ txns' = txns /\ is_on' = is_on
            /\ (pc[t] = "complete" /\ parts[t] = <<>> /\ pc'[t] # "complete")
                  => /\ is_on' = is_on
                     /\ \/ pc'[t] = "finally"
                              /\ txns'[upload_id[t]].state = "Finalized"
                        \/ pc'[t] = "abort" /\ txns'[upload_id[t]].failed
            /\ (pc[t] = "finally" /\ process[t] # 0 /\ parts[t] = <<>>
                   /\ txns[upload_id[t]].state # "Open" /\ pc'[t] # "finally")
                  => /\ is_on' = is_on
                     /\ procs'[process[t]] = "reaped"
                     /\ pc'[t] = "while_on"
            /\ (pc[t] = "while_on" /\ is_on /\ EmptyFinalized(t)
                   /\ pc'[t] # "while_on")
                  => pc'[t] = "create"]_vars
    /\ [](\A t \in Tasks :
            (pc[t] \in {"complete", "abort", "finally"} /\ parts[t] = <<>>)
               => txns[upload_id[t]].log = <<>>)
    /\ [](\A t \in Tasks :
            (pc[t] = "raised" /\ exc[t] = "ClientError")
               => call[t] # "propagated")

\* one start only; the first read of the first segment returned b"", the
\* transaction was finalized with no part, the capture reaped, and the job
\* is about to open the next transaction with the run state still on
C12_Witness ==
    /\ is_on /\ OneStartOnly
    /\ pc[1] = "create" /\ EmptyFinalized(1) /\ Len(txns) = 1
    /\ procs[process[1]] = "reaped"

\* ---- C13 -----------------------------------------------------------------
\* the last segment of job t ended in the OSError handler: the handler has
\* run (no exception in flight) and the transaction was neither closed nor
\* refused a call
OSFailed(t) ==
    /\ pc[t] \in {"finally", "while_on"}
    /\ exc[t] = "none"
    /\ upload_id[t] # 0
    /\ txns[upload_id[t]].state = "Open" /\ ~txns[upload_id[t]].failed

\* C13: a failed capture launch or a failed read turns the run state off;
\* only a start command turns it on again; a job opens a transaction only
\* after it found the run state on at line 73; and a job that comes from
\* the OSError handler and finds the run state off opens no transaction and
\* launches no capture before it returns or raises.
C13_OSFailureStopsSession ==
    /\ [][\A t \in Tasks :
            (pc[t] = "except_os" /\ pc'[t] # "except_os")
               => /\ ~is_on' /\ pc'[t] = "finally"
                  /\ Len(txns') = Len(txns) /\ Len(procs') = Len(procs)]_vars
    /\ [][(~is_on /\ is_on')
            => /\ lastCmd' = "start"
               /\ \E t \in Tasks : call[t] = "none" /\ call'[t] = "awaiting"]_vars
    /\ [][\A t \in Tasks :
            (pc[t] # "create" /\ pc'[t] = "create")
               => pc[t] = "while_on" /\ is_on]_vars
    /\ [][\A t \in Tasks :
            (OSFailed(t) /\ ~is_on /\ pc'[t] # pc[t])
               => /\ pc'[t] \in {"while_on", "exit", "raised"}
                  /\ Len(txns') = Len(txns) /\ Len(procs') = Len(procs)]_vars
    /\ [][\A t \in Tasks :
            (Len(txns') > Len(txns) /\ txns'[Len(txns')].owner = t)
               => pc[t] = "create"]_vars

\* one start only; a read of the first segment raised, the handler turned
\* the run state off, and the job has returned without a further segment
C13_Witness ==
    /\ OneStartOnly /\ ~is_on
    /\ pc[1] = "exit" /\ call[1] = "awaiting"
    /\ Len(txns) = 1 /\ Len(procs) = 1 /\ procs[1] = "reaped"
    /\ txns[1].state = "Open" /\ ~txns[1].failed

\* ---- C14 -----------------------------------------------------------------
\* C14: a job does not stay in the read of line 99 for ever; in particular
\* once the run state is off (a stop was issued while the job was waiting
\* for the capture stream) the job eventually leaves the read.
C14_StopEndsStalledRead ==
    \A t \in Tasks : (pc[t] = "read" /\ ~is_on) ~> (pc[t] # "read")

\* ---- C15 -----------------------------------------------------------------
\* positions of a job between the launch of its capture process and the end
\* of the finally clause of the segment
AfterLaunch == InSegment \ {"popen"}

\* C15: a capture process that is not yet reaped is the current process of
\* a job that is still inside the segment that launched it; so every capture
\* process is reaped by the time its job is back at line 73, launches the
\* next one, returns or raises.
C15_CaptureReapedOnEveryPath ==
    \A p \in 1..Len(procs) :
        procs[p] # "reaped" =>
            \E t \in Tasks : process[t] = p /\ pc[t] \in AfterLaunch

\* a job has returned after two segments, the first ended by a failed part
\* upload and the second by a stop, and both capture processes are reaped
C15_Witness ==
    /\ pc[1] = "exit" /\ lastCmd = "stop"
    /\ Len(procs) = 2 /\ procs[1] = "reaped" /\ procs[2] = "reaped"
    /\ Len(txns) = 2 /\ txns[1].owner = 1 /\ txns[2].owner = 1
    /\ txns[1].state = "Aborted" /\ txns[2].state = "Finalized"

\* ---- C16 -----------------------------------------------------------------
\* positions at which the next step of a job is an upload_part, a
\* complete_multipart_upload or an abort_multipart_upload call on upload_id
StoreCall == {"upload_part", "upload_last", "complete", "abort"}

\* C16: a transaction is Open, Finalized or Aborted, and a job is about to
\* issue upload_part, complete_multipart_upload or abort_multipart_upload
\* only against a transaction that is Open and that it opened itself; so no
\* such call is ever made against a Finalized or Aborted transaction.
C16_NoCallAfterClose ==
    /\ \A i \in TxnIds : txns[i].state \in {"Open", "Finalized", "Aborted"}
    /\ \A t \in Tasks :
          pc[t] \in StoreCall =>
              /\ txns[upload_id[t]].state = "Open"
              /\ txns[upload_id[t]].owner = t

\* a job is about to upload a part of its second transaction while its
\* first transaction is Finalized
C16_Witness ==
    /\ Len(txns) = 2 /\ txns[1].owner = 1 /\ txns[1].state = "Finalized"
    /\ pc[1] = "upload_part" /\ upload_id[1] = 2

\* ---- C17 -----------------------------------------------------------------
\* C17: the buffer never holds more than the threshold plus one read unit,
\* it holds at most the threshold whenever a read is about to be made, and
\* it is empty after every upload_part that the threshold test triggered.
C17_BufferBounded ==
    /\ [](\A t \in Tasks :
            /\ buffer[t] <= Threshold + ReadUnit
            /\ pc[t] \in {"read_on", "read"} => buffer[t] <= Threshold)
    /\ [][\A t \in Tasks :
            (pc[t] = "upload_part" /\ pc'[t] = "read_on") => buffer'[t] = 0]_vars

\* six full reads took the buffer past the threshold to the threshold plus
\* one read unit, the part was uploaded, and the buffer is empty before the
\* seventh read
C17_Witness ==
    \E t \in Tasks :
        /\ pc[t] = "read_on" /\ buffer[t] = 0
        /\ reads[t] * ReadUnit = Threshold + ReadUnit
        /\ Len(parts[t]) = 1

\* ---- C18 -----------------------------------------------------------------
RECURSIVE SumSeq(_)
SumSeq(q) == IF q = <<>> THEN 0 ELSE Head(q) + SumSeq(Tail(q))

\* C18: at any point of a segment the bytes read so far are those uploaded
\* in parts plus those still in the buffer; when the segment goes to the
\* finalize the buffer is empty, so the part sizes sum to the bytes read;
\* and every part but the last is at least the threshold.
C18_PartsSumToBytesRead ==
    /\ SumSeq(acc.chunks) + acc.buf = acc.N - acc.left
    /\ acc.pc = "done" =>
          /\ acc.buf = 0
          /\ SumSeq(acc.chunks) = acc.N - acc.left
          /\ \A k \in 1..(Len(acc.chunks) - 1) : acc.chunks[k] >= acc.T

\* a segment of three parts, the last one a final flush of no more than the
\* threshold, that add up to the bytes read
C18_Witness ==
    /\ acc.pc = "done" /\ Len(acc.chunks) = 3
    /\ acc.chunks[3] <= acc.T
    /\ SumSeq(acc.chunks) = acc.N /\ acc.N > 0

\* ---- C19 -----------------------------------------------------------------
\* C19: when a start call completes (its job has returned or raised and its
\* cleanup runs), the run state of a session that a later start call turned
\* on, and whose call is still pending, stays on.
C19_EarlierCleanupSparesLaterSession ==
    [][\A t, u \in Tasks :
         (/\ call[t] = "awaiting" /\ call'[t] # "awaiting"
          /\ t < u /\ call[u] = "awaiting" /\ is_on)
            => is_on']_vars

\* ---- C20 -----------------------------------------------------------------
\* C20: no start_stream_to_s3 call ends by passing an exception of its job
\* on to its caller.
C20_NothingPropagatesOutOfStart ==
    \A t \in Tasks : call[t] # "propagated"
====
